---- MODULE Spec2Model ----
(***************************************************************************)
(* Model of hezar/configs.py: the Config dataclass hierarchy, its          *)
(* dict()/from_dict()/update() operations and its load/save/push_to_hub    *)
(* operations on the local filesystem and the Hub.                         *)
(*                                                                         *)
(* Python values are records [kind, cls, v] of one shape:                  *)
(*   kind "scalar"  a str/int/bool/None, v is its text                     *)
(*   kind "config"  a nested Config instance of class cls; the nested      *)
(*                  class used is DatasetConfig, whose one field is task,  *)
(*                  and v is the text of that field                        *)
(*   kind "dict"    a plain mapping {"task": v}                            *)
(*   kind "tensor"  a torch.Tensor (CriterionConfig.weight)                *)
(* A Python dict is a sequence of <<key, value>> pairs with distinct keys  *)
(* (insertion order is kept, as in Python).                                *)
(***************************************************************************)
EXTENDS Integers, Sequences, FiniteSets, TLC

\* ------------------------------------------------------------------------
\* Values
\* ------------------------------------------------------------------------
S(x) == [kind |-> "scalar", cls |-> "", v |-> x]
None == S("None")
Cfg(x) == [kind |-> "config", cls |-> "DatasetConfig", v |-> x]
Dct(x) == [kind |-> "dict", cls |-> "", v |-> x]
Tensor == [kind |-> "tensor", cls |-> "", v |-> "tensor"]

\* ------------------------------------------------------------------------
\* Python dict helpers (dict = sequence of <<key, value>> pairs)
\* ------------------------------------------------------------------------
EmptyDict == << >>
DictKeys(d) == {d[i][1] : i \in 1..Len(d)}
DictGet(d, k) == d[CHOOSE i \in 1..Len(d) : d[i][1] = k][2]
DictSet(d, k, val) ==
    IF k \in DictKeys(d)
    THEN [i \in 1..Len(d) |-> IF d[i][1] = k THEN <<k, val>> ELSE d[i]]
    ELSE Append(d, <<k, val>>)

RECURSIVE DictUpdate(_, _)
\* d.update(e): keys of e overwrite in place or are appended, in e's order
DictUpdate(d, e) ==
    IF e = << >> THEN d
    ELSE DictUpdate(DictSet(d, e[1][1], e[1][2]), Tail(e))

\* the keys of d, in order, that satisfy a membership test
RECURSIVE DictFilter(_, _)
DictFilter(d, keep) ==
    IF d = << >> THEN << >>
    ELSE IF d[1][1] \in keep THEN <<d[1]>> \o DictFilter(Tail(d), keep)
    ELSE DictFilter(Tail(d), keep)

\* ------------------------------------------------------------------------
\* The class hierarchy.  The ten classes of configs.py, and client
\* subclasses of them (configs are meant to be subclassed: "an instance of
\* `Config` or its derivatives").
\* ------------------------------------------------------------------------
SourceClasses ==
    {"Config", "ModelConfig", "PreprocessorConfig", "DatasetConfig",
     "EmbeddingConfig", "CriterionConfig", "LRSchedulerConfig",
     "OptimizerConfig", "MetricConfig", "TrainerConfig"}

\* client subclasses:
\*   class BertConfig(ModelConfig):        vocab_size: int
\*   class GPTConfig(ModelConfig):         pass
\*   class TaggedConfig(ModelConfig):      name: str = "tagged"
\*                                         config_type: str = "model"
\*                                         tags: list = field(default_factory=list)
\*   class MyTrainerConfig(TrainerConfig): warmup: int = 0
\*   class PlainTrainerConfig(TrainerConfig): pass
\*   class CustomConfig(Config):           size: int = 1
ClientClasses ==
    {"BertConfig", "GPTConfig", "TaggedConfig", "MyTrainerConfig",
     "PlainTrainerConfig", "CustomConfig"}

Classes == SourceClasses \cup ClientClasses

\* cls.__mro__ without the trailing `object`
MRO(c) ==
    CASE c = "Config" -> <<"Config">>
      [] c \in SourceClasses \ {"Config"} -> <<c, "Config">>
      [] c \in {"BertConfig", "GPTConfig", "TaggedConfig"} -> <<c, "ModelConfig", "Config">>
      [] c \in {"MyTrainerConfig", "PlainTrainerConfig"} -> <<c, "TrainerConfig", "Config">>
      [] c = "CustomConfig" -> <<c, "Config">>

\* the words of cls.__name__ with "Config" removed, lower-cased
Words(c) ==
    CASE c = "Config" -> << >>
      [] c = "ModelConfig" -> <<"model">>
      [] c = "PreprocessorConfig" -> <<"preprocessor">>
      [] c = "DatasetConfig" -> <<"dataset">>
      [] c = "EmbeddingConfig" -> <<"embedding">>
      [] c = "CriterionConfig" -> <<"criterion">>
      [] c = "LRSchedulerConfig" -> <<"lr", "scheduler">>
      [] c = "OptimizerConfig" -> <<"optimizer">>
      [] c = "MetricConfig" -> <<"metric">>
      [] c = "TrainerConfig" -> <<"trainer">>
      [] c = "BertConfig" -> <<"bert">>
      [] c = "GPTConfig" -> <<"gpt">>
      [] c = "TaggedConfig" -> <<"tagged">>
      [] c = "MyTrainerConfig" -> <<"my", "trainer">>
      [] c = "PlainTrainerConfig" -> <<"plain", "trainer">>
      [] c = "CustomConfig" -> <<"custom">>

\* the annotations written in the body of class c, in order, each with its
\* default: a value, "required" (no default) or "factory" (default_factory)
Req == [kind |-> "required", cls |-> "", v |-> ""]
Factory(x) == [kind |-> "factory", cls |-> "", v |-> x]

OwnAnnotations(c) ==
    CASE c = "DatasetConfig" -> << <<"task", None>> >>
      [] c = "CriterionConfig" ->
            << <<"weight", None>>, <<"reduce", None>>, <<"ignore_index", S("-100")>> >>
      [] c = "LRSchedulerConfig" -> << <<"verbose", S("True")>> >>
      [] c = "OptimizerConfig" ->
            << <<"lr", None>>, <<"weight_decay", S("0.0")>>, <<"scheduler", None>> >>
      [] c = "TrainerConfig" ->
            << <<"task", None>>, <<"device", S("cuda")>>, <<"init_weights_from", None>>,
               <<"dataset_config", None>>, <<"num_dataloader_workers", S("0")>>,
               <<"seed", S("42")>>, <<"optimizer", None>>, <<"batch_size", None>>,
               <<"use_amp", S("False")>>, <<"metrics", None>>, <<"num_epochs", None>>,
               <<"save_freq", S("1")>>, <<"checkpoints_dir", None>>, <<"log_dir", None>> >>
      [] c = "BertConfig" -> << <<"vocab_size", Req>> >>
      [] c = "TaggedConfig" ->
            << <<"name", S("tagged")>>, <<"config_type", S("model")>>,
               <<"tags", Factory("[]")>> >>
      [] c = "MyTrainerConfig" -> << <<"warmup", S("0")>> >>
      [] c = "CustomConfig" -> << <<"size", S("1")>> >>
      [] OTHER -> << >>

\* attributes defined in the body of Config itself: the two read-only
\* properties and the methods
Properties == {"name", "config_type"}
Methods == {"dict", "keys", "get", "update", "load", "from_dict", "save", "push_to_hub"}


\* ------------------------------------------------------------------------
\* What @dataclass makes of the hierarchy
\* ------------------------------------------------------------------------
RECURSIVE Fields(_, _)
\* dataclasses.fields(c) as a dict name -> default, collected base class
\* first; i walks the MRO from its end
Fields(c, i) ==
    IF i = 0 THEN << >>
    ELSE DictUpdate(Fields(c, i - 1), OwnAnnotations(MRO(c)[Len(MRO(c)) + 1 - i]))

\* Classes is fixed, so the fields are tabulated once
FieldTable == [c \in Classes |-> Fields(c, Len(MRO(c)))]
AllFields(c) == FieldTable[c]
FieldNames(c) == DictKeys(AllFields(c))
RequiredFields(c) == {f \in FieldNames(c) : DictGet(AllFields(c), f).kind = "required"}
DefaultValue(c, f) ==
    LET dflt == DictGet(AllFields(c), f)
    IN  IF dflt.kind = "factory" THEN S(dflt.v) ELSE dflt
\* what __init__ assigns when no argument is given
DefaultAttrs == [c \in Classes |-> [f \in FieldNames(c) |-> DefaultValue(c, f)]]

\* the names in the __dict__ of class x: @dataclass leaves a field's default
\* as a class attribute, and deletes the attribute of a field that has no
\* default or has a default_factory
ClassDict(x) ==
    {OwnAnnotations(x)[i][1] : i \in {j \in 1..Len(OwnAnnotations(x)) :
                                        OwnAnnotations(x)[j][2].kind \notin {"required", "factory"}}}
    \cup (IF x = "Config" THEN Properties \cup Methods ELSE {})

\* hasattr(cls, k): some class of the MRO has k in its __dict__
HasAttr(c, k) == \E i \in 1..Len(MRO(c)) : k \in ClassDict(MRO(c)[i])

\* k resolves, on an instance of c, to a property of Config (a data
\* descriptor without a setter): no class before Config in the MRO
\* redefines it
IsProperty(c, k) ==
    /\ k \in Properties
    /\ \A i \in 1..Len(MRO(c)) : MRO(c)[i] # "Config" => k \notin ClassDict(MRO(c)[i])

\* self.__annotations__, looked up through the instance: the __annotations__
\* of the first class of the MRO whose body has annotations.  The result is
\* <<found, names>>; found is FALSE when no class has any (AttributeError).
InstanceAnnotations(c) ==
    LET having == {i \in 1..Len(MRO(c)) : OwnAnnotations(MRO(c)[i]) # << >>}
    IN  IF having = {} THEN <<FALSE, {}>>
        ELSE LET first == CHOOSE i \in having : \A j \in having : i <= j
             IN  <<TRUE, DictKeys(OwnAnnotations(MRO(c)[first]))>>

\* ------------------------------------------------------------------------
\* Instances.  An instance is [cls, attrs]; attrs is its __dict__, a function
\* from attribute names to values.
\* ------------------------------------------------------------------------
\* cls(**kw) raises TypeError: an unexpected keyword, or a missing required one
InitError(c, kw) ==
    \/ DictKeys(kw) \ FieldNames(c) # {}
    \/ RequiredFields(c) \ DictKeys(kw) # {}

\* cls(**kw) when it does not raise
Construct(c, kw) ==
    [cls |-> c,
     attrs |-> [f \in DOMAIN DefaultAttrs[c] |->
                  IF f \in DictKeys(kw) THEN DictGet(kw, f) ELSE DefaultAttrs[c][f]]]

\* dataclass __eq__: same class and equal field tuples
DataclassEq(a, b) ==
    /\ a.cls = b.cls
    /\ \A f \in FieldNames(a.cls) : a.attrs[f] = b.attrs[f]

\* ------------------------------------------------------------------------
\* Config.name, Config.config_type
\* ------------------------------------------------------------------------
RECURSIVE Join(_, _)
Join(ws, sep) ==
    IF ws = << >> THEN ""
    ELSE IF Len(ws) = 1 THEN ws[1]
    ELSE ws[1] \o sep \o Join(Tail(ws), sep)

\* the `name` property
name(c) == IF Join(Words(c), "_") = "" THEN "base" ELSE Join(Words(c), "_")

\* ConfigType members, by the class they are mapped from
CONFIG_TYPES_MAPPING ==
    << <<"Config", "base">>, <<"ModelConfig", "model">>,
       <<"PreprocessorConfig", "preprocessor">>, <<"TrainerConfig", "trainer">>,
       <<"DatasetConfig", "dataset">>, <<"EmbeddingConfig", "embedding">>,
       <<"CriterionConfig", "criterion">>, <<"OptimizerConfig", "optimizer">>,
       <<"LRSchedulerConfig", "lr_scheduler">>, <<"MetricConfig", "metric">> >>

\* the `config_type` property, read on an instance of class c:
\* [outcome, value, warned]
config_type(c) ==
    LET parent_class == IF Len(MRO(c)) >= 2 THEN MRO(c)[2] ELSE "object"
        keys == DictKeys(CONFIG_TYPES_MAPPING)
    IN  IF parent_class \notin keys
        THEN [outcome |-> "KeyError", value |-> "", warned |-> FALSE]
        ELSE IF DictGet(CONFIG_TYPES_MAPPING, parent_class) = "base" /\ c \notin keys
        THEN [outcome |-> "ok", value |-> Join(Words(c), ""), warned |-> TRUE]
        ELSE IF c \notin keys
        THEN [outcome |-> "KeyError", value |-> "", warned |-> FALSE]
        ELSE [outcome |-> "ok", value |-> DictGet(CONFIG_TYPES_MAPPING, c), warned |-> FALSE]

\* instance.config_type: the property, unless a subclass redefines the
\* attribute as a field
GetConfigType(inst) ==
    IF IsProperty(inst.cls, "config_type") THEN config_type(inst.cls)
    ELSE [outcome |-> "ok", value |-> inst.attrs["config_type"].v, warned |-> FALSE]

\* ------------------------------------------------------------------------
\* Config.dict, Config.from_dict, Config.update
\* ------------------------------------------------------------------------
\* asdict turns a nested dataclass instance into a dict and copies the rest
AsdictInner(val) == IF val.kind = "config" THEN Dct(val.v) ELSE val

\* self.dict(): the declared fields only, in declaration order
dict(inst) ==
    [i \in 1..Len(AllFields(inst.cls)) |->
        <<AllFields(inst.cls)[i][1], AsdictInner(inst.attrs[AllFields(inst.cls)[i][1]])>>]

\* cls.from_dict(dict_config, **kwargs): [merged, outcome, config] where
\* merged is dict_config after dict_config.update(**kwargs)
from_dict(c, dict_config, kwargs) ==
    LET merged == DictUpdate(dict_config, kwargs)
        kept == DictFilter(merged, {k \in DictKeys(merged) : HasAttr(c, k)})
    IN  [merged |-> merged,
         outcome |-> IF InitError(c, kept) THEN "TypeError" ELSE "ok",
         config |-> Construct(c, kept)]

RECURSIVE UpdateLoop(_, _, _)
\* the for loop of update over the items still to visit:
\* [config, warned, outcome]
UpdateLoop(inst, items, warned) ==
    IF items = << >> THEN [config |-> inst, warned |-> warned, outcome |-> "ok"]
    ELSE LET k == items[1][1]
             ann == InstanceAnnotations(inst.cls)
             w == IF k \notin ann[2] THEN Append(warned, k) ELSE warned
         IN  IF ~ann[1]
             THEN [config |-> inst, warned |-> warned, outcome |-> "AttributeError"]
             ELSE IF IsProperty(inst.cls, k)
             THEN [config |-> inst, warned |-> w, outcome |-> "AttributeError"]
             ELSE UpdateLoop(
                    [inst EXCEPT !.attrs =
                        [a \in DOMAIN inst.attrs \cup {k} |->
                            IF a = k THEN items[1][2] ELSE inst.attrs[a]]],
                    Tail(items), w)

\* update as it would be if it merged kwargs into a copy of d
updateOnCopy(inst, d, kwargs) ==
    LET r == UpdateLoop(inst, DictUpdate(d, kwargs), << >>)
    IN  [merged |-> d, config |-> r.config, warned |-> r.warned, outcome |-> r.outcome]

\* self.update(d, **kwargs): [merged, config, warned, outcome]
update(inst, d, kwargs) ==
    LET merged == DictUpdate(d, kwargs)
        r == UpdateLoop(inst, merged, << >>)
    IN  [merged |-> merged, config |-> r.config, warned |-> r.warned, outcome |-> r.outcome]

\* ------------------------------------------------------------------------
\* State
\* ------------------------------------------------------------------------
VARIABLES
    objs,    \* the live Config instances, by object id (1..Len(objs))
    dicts,   \* the dict objects the caller holds, by object id
    ret,     \* the last in-memory call: its arguments, the heap before it,
             \* its outcome, what it returned and the warnings it logged
    ncalls,  \* number of calls made so far
    dirs,    \* local filesystem: the directories that exist (paths)
    files,   \* local filesystem: the files, a set of <<path, document>>
    hub,     \* the Hub: [repos, files], files a set of <<path, document>>
             \* whose paths start with the repo id
    cache,   \* HEZAR_CACHE_DIR: the Hub paths downloaded into it
    ntmp,    \* number of temporary directories tempfile.mkdtemp() has made
    res      \* the last load/save/push_to_hub call, like ret

memvars == <<objs, dicts, ret>>
storevars == <<dirs, files, hub, cache, ntmp, res>>
vars == <<objs, dicts, ret, ncalls, dirs, files, hub, cache, ntmp, res>>

\* bound on the length of a run
MaxCalls == 2

\* ------------------------------------------------------------------------
\* In-memory operations: inputs
\* ------------------------------------------------------------------------
\* a TrainerConfig with every field set
FullTrainer(dataset_config) ==
    Construct("TrainerConfig",
        << <<"task", S("text_classification")>>, <<"device", S("cpu")>>,
           <<"init_weights_from", S("hezarai/bert")>>, <<"dataset_config", dataset_config>>,
           <<"num_dataloader_workers", S("2")>>, <<"seed", S("7")>>,
           <<"optimizer", S("adam")>>, <<"batch_size", S("32")>>, <<"use_amp", S("True")>>,
           <<"metrics", S("[f1]")>>, <<"num_epochs", S("3")>>, <<"save_freq", S("1")>>,
           <<"checkpoints_dir", S("ckpt")>>, <<"log_dir", S("logs")>> >>)

\* configs built by their constructors
InputConfigs ==
    { Construct("TrainerConfig",
          << <<"task", S("text_classification")>>, <<"batch_size", S("32")>> >>),
      FullTrainer(Cfg("text_classification")),
      Construct("LRSchedulerConfig", << <<"verbose", S("False")>> >>),
      Construct("Config", << >>),
      Construct("ModelConfig", << >>),
      Construct("BertConfig", << <<"vocab_size", S("30000")>> >>),
      Construct("GPTConfig", << >>),
      Construct("TaggedConfig", << <<"tags", S("[a]")>> >>),
      Construct("MyTrainerConfig", << <<"warmup", S("5")>> >>),
      Construct("CustomConfig", << >>) }

\* mappings a caller passes
InputDicts ==
    { << >>,
      << <<"unknown_field", S("1")>> >>,
      << <<"task", S("ner")>> >>,
      << <<"name", S("x")>> >>,
      << <<"vocab_size", S("100")>> >>,
      << <<"tags", S("[b]")>>, <<"dict", S("1")>> >> }

\* keyword arguments a caller passes
InputKwargs ==
    { << >>,
      << <<"task", S("qa")>>, <<"unknown_field", S("2")>> >> }

\* the classes from_dict is called on
FromDictClasses ==
    {"TrainerConfig", "LRSchedulerConfig", "BertConfig", "TaggedConfig"}

NoRet ==
    [op |-> "none", cls |-> "", self |-> 0, did |-> 0, kwargs |-> << >>,
     outcome |-> "", rid |-> 0, value |-> "", warned |-> << >>,
     objs0 |-> << >>, dicts0 |-> << >>]

NoHub == [repos |-> {}, files |-> {}]

NoRes ==
    [op |-> "none", loc |-> "", filename |-> "", subfolder |-> "", kwargs |-> << >>,
     self |-> [cls |-> "", attrs |-> << >>], outcome |-> "", failed |-> "",
     trace |-> << >>, path |-> << >>, doc |-> << >>, cls |-> "",
     config |-> [cls |-> "", attrs |-> << >>], tmp |-> "",
     dirs0 |-> {}, files0 |-> {}, hub0 |-> NoHub,
     prevop |-> "", prevpath |-> << >>, prevoutcome |-> "",
     prevself |-> [cls |-> "", attrs |-> << >>]]

InitStoreIdle ==
    /\ dirs = {}
    /\ files = {}
    /\ hub = NoHub
    /\ cache = {}
    /\ ntmp = 0
    /\ res = NoRes

InitObj ==
    /\ \E c \in InputConfigs : objs = <<c>>
    /\ \E d \in InputDicts : dicts = <<d>>
    /\ ret = NoRet
    /\ ncalls = 0
    /\ InitStoreIdle

\* ------------------------------------------------------------------------
\* In-memory operations: actions
\* ------------------------------------------------------------------------
\* objs[i].update(dicts[j], **kwargs)
Update(i, j, kwargs) ==
    LET r == update(objs[i], dicts[j], kwargs)
    IN  /\ ncalls < MaxCalls
        /\ ncalls' = ncalls + 1
        /\ dicts' = [dicts EXCEPT ![j] = r.merged]
        /\ objs' = [objs EXCEPT ![i] = r.config]
        /\ ret' = [op |-> "update", cls |-> objs[i].cls, self |-> i, did |-> j,
                   kwargs |-> kwargs, outcome |-> r.outcome,
                   rid |-> IF r.outcome = "ok" THEN i ELSE 0,
                   value |-> "", warned |-> r.warned, objs0 |-> objs, dicts0 |-> dicts]
        /\ UNCHANGED storevars

\* c.from_dict(dicts[j], **kwargs)
FromDict(c, j, kwargs) ==
    LET r == from_dict(c, dicts[j], kwargs)
    IN  /\ ncalls < MaxCalls
        /\ ncalls' = ncalls + 1
        /\ dicts' = [dicts EXCEPT ![j] = r.merged]
        /\ objs' = IF r.outcome = "ok" THEN Append(objs, r.config) ELSE objs
        /\ ret' = [op |-> "from_dict", cls |-> c, self |-> 0, did |-> j,
                   kwargs |-> kwargs, outcome |-> r.outcome,
                   rid |-> IF r.outcome = "ok" THEN Len(objs) + 1 ELSE 0,
                   value |-> "", warned |-> << >>, objs0 |-> objs, dicts0 |-> dicts]
        /\ UNCHANGED storevars

\* objs[i].dict(): the caller keeps the returned dict
ToDict(i) ==
    /\ ncalls < MaxCalls
    /\ ncalls' = ncalls + 1
    /\ dicts' = Append(dicts, dict(objs[i]))
    /\ objs' = objs
    /\ ret' = [op |-> "dict", cls |-> objs[i].cls, self |-> i, did |-> 0,
               kwargs |-> << >>, outcome |-> "ok", rid |-> Len(dicts) + 1,
               value |-> "", warned |-> << >>, objs0 |-> objs, dicts0 |-> dicts]
    /\ UNCHANGED storevars

\* objs[i].config_type
ReadConfigType(i) ==
    LET r == GetConfigType(objs[i])
    IN  /\ ncalls < MaxCalls
        /\ ncalls' = ncalls + 1
        /\ UNCHANGED <<objs, dicts>>
        /\ ret' = [op |-> "config_type", cls |-> objs[i].cls, self |-> i, did |-> 0,
                   kwargs |-> << >>, outcome |-> r.outcome, rid |-> 0,
                   value |-> r.value,
                   warned |-> IF r.warned THEN <<"config_type">> ELSE << >>,
                   objs0 |-> objs, dicts0 |-> dicts]
        /\ UNCHANGED storevars

NextObj ==
    \/ \E i \in DOMAIN objs, j \in DOMAIN dicts, kw \in InputKwargs : Update(i, j, kw)
    \/ \E c \in FromDictClasses, j \in DOMAIN dicts, kw \in InputKwargs : FromDict(c, j, kw)
    \/ \E i \in DOMAIN objs : ToDict(i)
    \/ \E i \in DOMAIN objs : ReadConfigType(i)

SpecObj == InitObj /\ [][NextObj]_vars

\* ------------------------------------------------------------------------
\* Properties of the in-memory operations (checked under SpecObj)
\* ------------------------------------------------------------------------
NoNullFields(inst) == \A f \in FieldNames(inst.cls) : inst.attrs[f] # None

\* C3: for a config c with no null fields (nested configs included),
\* type(c).from_dict(c.dict()) succeeds and returns an instance equal to c
\* by dataclass equality.
C3_RoundTrip ==
    \A i \in DOMAIN ret.objs0 :
        ( /\ ret.op = "from_dict"
          /\ ret.kwargs = << >>
          /\ ret.cls = ret.objs0[i].cls
          /\ NoNullFields(ret.objs0[i])
          /\ ret.dicts0[ret.did] = dict(ret.objs0[i]) )
        => /\ ret.outcome = "ok"
           /\ DataclassEq(objs[ret.rid], ret.objs0[i])

\* the category bases: the classes of CONFIG_TYPES_MAPPING other than Config
CategoryBases == DictKeys(CONFIG_TYPES_MAPPING) \ {"Config"}
DirectlyExtends(c, base) == Len(MRO(c)) >= 2 /\ MRO(c)[2] = base

\* C4: config_type read on an instance of a class A that directly extends a
\* category base returns a value without error; every other class B that
\* directly extends the same base gives the same value, and every class
\* that directly extends another category base gives a different one.
C4_CategoryDerivation ==
    \A base \in CategoryBases :
        (ret.op = "config_type" /\ DirectlyExtends(ret.cls, base))
        => /\ ret.outcome = "ok"
           /\ \A b \in Classes :
                 DirectlyExtends(b, base) =>
                    /\ config_type(b).outcome = "ok"
                    /\ config_type(b).value = ret.value
           /\ \A other \in CategoryBases \ {base}, c \in Classes :
                 DirectlyExtends(c, other) =>
                    /\ config_type(c).outcome = "ok"
                    /\ config_type(c).value # ret.value

\* C5: update({k: v}) with k not a declared field does not raise, sets the
\* attribute, logs exactly one warning and returns the instance it was
\* called on.
C5_UpdateEscapeHatch ==
    ( /\ ret.op = "update"
      /\ ret.kwargs = << >>
      /\ Len(ret.dicts0[ret.did]) = 1
      /\ ret.dicts0[ret.did][1][1] \notin FieldNames(ret.cls) )
    => /\ ret.outcome = "ok"
       /\ ret.dicts0[ret.did][1][1] \in DOMAIN objs[ret.self].attrs
       /\ objs[ret.self].attrs[ret.dicts0[ret.did][1][1]] = ret.dicts0[ret.did][1][2]
       /\ Len(ret.warned) = 1
       /\ ret.rid = ret.self

\* C6: from_dict(m) on T drops every key of m that is not a declared field
\* of T and passes every key that is one: it fails only when a required
\* field is missing from m, and otherwise builds T from the declared keys.
C6_FromDictDropsUnknown ==
    ( /\ ret.op = "from_dict"
      /\ RequiredFields(ret.cls) \subseteq DictKeys(dicts[ret.did]) )
    => /\ ret.outcome = "ok"
       /\ objs[ret.rid] =
            Construct(ret.cls, DictFilter(dicts[ret.did], FieldNames(ret.cls)))

\* C9: update warns about a key exactly when the key is not a declared field
\* of the instance's type (inherited fields are declared fields), and on a
\* collision the keyword value is the one set.
C9_UpdateWarnsOnlyUndeclared ==
    (ret.op = "update" /\ ret.outcome = "ok")
    => /\ {ret.warned[n] : n \in 1..Len(ret.warned)}
             = DictKeys(dicts[ret.did]) \ FieldNames(ret.cls)
       /\ \A k \in DictKeys(ret.kwargs) : objs[ret.self].attrs[k] = DictGet(ret.kwargs, k)

\* C10: update(d, **kwargs) and from_dict(d, **kwargs) merge kwargs into the
\* caller's dict d itself: when the call ends, normally or by raising, d
\* has every key of kwargs with the kwargs value, its other keys are
\* unchanged, and it has no further keys.
C10_MergeInPlace ==
    (ret.op \in {"update", "from_dict"})
    => LET before == ret.dicts0[ret.did]
           after == dicts[ret.did]
       IN  /\ DictKeys(after) = DictKeys(before) \cup DictKeys(ret.kwargs)
           /\ \A k \in DictKeys(ret.kwargs) : DictGet(after, k) = DictGet(ret.kwargs, k)
           /\ \A k \in DictKeys(before) \ DictKeys(ret.kwargs) :
                 DictGet(after, k) = DictGet(before, k)
           /\ \A j \in DOMAIN ret.dicts0 : j # ret.did => dicts[j] = ret.dicts0[j]

\* a second call on the same dict, which already holds the keys an earlier
\* call merged into it, raises after merging keys the dict did not have
C10_Witness ==
    /\ ret.op = "from_dict"
    /\ ret.outcome = "TypeError"
    /\ ncalls = 2
    /\ ret.kwargs # << >>
    /\ "unknown_field" \in DictKeys(ret.dicts0[ret.did])
    /\ "unknown_field" \in DictKeys(ret.kwargs)

\* ------------------------------------------------------------------------
\* The filesystem, the Hub and the registry
\* ------------------------------------------------------------------------
DEFAULT_MODEL_CONFIG_FILE == "model_config.yaml"

\* os.path.join(a, subfolder, filename) for relative components: an empty
\* component adds nothing.  A path is the sequence of its components.
PathJoin(a, subfolder, filename) ==
    <<a>> \o (IF subfolder = "" THEN << >> ELSE <<subfolder>>) \o <<filename>>

\* os.makedirs(join(save_dir, subfolder), exist_ok=True)
Makedirs(ds, save_dir, subfolder) ==
    ds \cup {<<save_dir>>} \cup (IF subfolder = "" THEN {} ELSE {<<save_dir, subfolder>>})

\* files is a set of <<path, document>> with one document per path
IsFile(fs, path) == \E x \in fs : x[1] = path
ReadFile(fs, path) == (CHOOSE x \in fs : x[1] = path)[2]
WriteFile(fs, path, doc) == {x \in fs : x[1] # path} \cup {<<path, doc>>}

\* OmegaConf.save refuses a value that is not a primitive or a container
Unsupported(config) == \E i \in 1..Len(config) : config[i][2].kind = "tensor"

\* get_module_config_class(name, config_type=...): the classes registered,
\* each under its name and its category; "" when none matches
Registered == {"TrainerConfig", "TaggedConfig", "BertConfig", "LRSchedulerConfig"}
Category(c) ==
    IF c \in DictKeys(CONFIG_TYPES_MAPPING) THEN DictGet(CONFIG_TYPES_MAPPING, c)
    ELSE DictGet(CONFIG_TYPES_MAPPING, MRO(c)[2])
get_module_config_class(n, t) ==
    LET hits == {c \in Registered : name(c) = n /\ Category(c) = t}
    IN  IF hits = {} THEN "" ELSE CHOOSE c \in hits : TRUE

NoConfig == [cls |-> "", attrs |-> << >>]

\* ------------------------------------------------------------------------
\* Config.save
\* ------------------------------------------------------------------------
\* the mapping save writes: dict() without the items that are None
SavedConfig(inst) ==
    DictFilter(dict(inst), {k \in DictKeys(dict(inst)) : DictGet(dict(inst), k) # None})

\* self.save(save_dir, filename, subfolder) on the filesystem <<ds, fs>>:
\* [dirs, files, outcome, path, doc]
save(inst, save_dir, filename, subfolder, ds, fs) ==
    LET sub == subfolder
        config == SavedConfig(inst)
        made == Makedirs(ds, save_dir, sub)
        save_path == PathJoin(save_dir, sub, filename)
    IN  IF Unsupported(config)
        THEN [dirs |-> made, files |-> fs, outcome |-> "UnsupportedValueType",
              path |-> save_path, doc |-> << >>]
        ELSE [dirs |-> made, files |-> WriteFile(fs, save_path, config), outcome |-> "ok",
              path |-> save_path, doc |-> config]

\* ------------------------------------------------------------------------
\* Config.load
\* ------------------------------------------------------------------------
\* the resolution as it would be without the local-directory check
ResolveFallsBack(hub_or_local_path, config_path, ds, fs) ==
    IF IsFile(fs, config_path) THEN "local" ELSE "hub"

\* where load takes the file from: the local file, the Hub, or nowhere
\* (the location is a local directory without the file)
Resolve(hub_or_local_path, config_path, ds, fs) ==
    LET is_local == IsFile(fs, config_path)
    IN  IF <<hub_or_local_path>> \in ds /\ ~is_local THEN "EnvironmentError"
        ELSE IF ~is_local THEN "hub"
        ELSE "local"

\* hf_hub_download(repo, filename, subfolder): the file is there to fetch
OnHub(h, repo, filename, subfolder) ==
    /\ repo \in h.repos
    /\ IsFile(h.files, <<repo>> \o (IF subfolder = "" THEN << >> ELSE <<subfolder>>)
                         \o <<filename>>)

\* lines 183-187 on the document read: [outcome, cls, config]
Materialize(doc, kwargs) ==
    IF ~({"name", "config_type"} \subseteq DictKeys(doc))
    THEN [outcome |-> "KeyError", cls |-> "", config |-> NoConfig]
    ELSE LET config_cls == get_module_config_class(DictGet(doc, "name").v,
                                                   DictGet(doc, "config_type").v)
             r == from_dict(config_cls, doc,
                            DictUpdate(<< <<"strict", S("False")>> >>, kwargs))
         IN  IF config_cls = ""
             THEN [outcome |-> "RegistryLookupError", cls |-> "", config |-> NoConfig]
             ELSE IF r.outcome # "ok"
             THEN [outcome |-> r.outcome, cls |-> config_cls, config |-> NoConfig]
             ELSE [outcome |-> "ok", cls |-> config_cls, config |-> r.config]

\* Config.load(hub_or_local_path, filename, subfolder, **kwargs); fetched
\* tells whether a download, if one is made, succeeds:
\* [outcome, trace, path, doc, cls, config]
load(hub_or_local_path, filename_arg, subfolder_arg, kwargs, fetched, ds, fs, h) ==
    LET filename == IF filename_arg = "" THEN DEFAULT_MODEL_CONFIG_FILE ELSE filename_arg
        subfolder == subfolder_arg
        config_path == PathJoin(hub_or_local_path, subfolder, filename)
        where == Resolve(hub_or_local_path, config_path, ds, fs)
        got == fetched /\ OnHub(h, hub_or_local_path, filename, subfolder)
        doc == IF where = "local" THEN ReadFile(fs, config_path)
               ELSE ReadFile(h.files, config_path)
        m == Materialize(doc, kwargs)
    IN  IF where = "EnvironmentError"
        THEN [outcome |-> "EnvironmentError", trace |-> << >>, path |-> config_path,
              doc |-> << >>, cls |-> "", config |-> NoConfig]
        ELSE IF where = "hub" /\ ~got
        THEN [outcome |-> "TransportError", trace |-> <<"hf_hub_download">>,
              path |-> config_path, doc |-> << >>, cls |-> "", config |-> NoConfig]
        ELSE [outcome |-> m.outcome,
              trace |-> IF where = "hub" THEN <<"hf_hub_download">> ELSE << >>,
              path |-> config_path, doc |-> doc, cls |-> m.cls, config |-> m.config]

\* ------------------------------------------------------------------------
\* Config.push_to_hub
\* ------------------------------------------------------------------------
\* the directory the n-th tempfile.mkdtemp() makes
TmpDir(n) == "tmp" \o ToString(n)

\* push_to_hub as it would be if it did not stop at a failed save
push_to_hub_ignoring_save(inst, repo_id, filename, subfolder, created, uploaded, ds, fs, h, n) ==
    LET path_in_repo == IF subfolder # "" THEN <<subfolder, filename>> ELSE <<filename>>
        h1 == [h EXCEPT !.repos = @ \cup {repo_id}]
        cache_path == TmpDir(n + 1)
        sv == save(inst, cache_path, filename, subfolder, ds \cup {<<cache_path>>}, fs)
    IN  IF ~created
        THEN [outcome |-> "TransportError", failed |-> "create_repo",
              trace |-> <<"create_repo">>, path |-> path_in_repo, tmp |-> "",
              dirs |-> ds, files |-> fs, hub |-> h, ntmp |-> n, doc |-> << >>]
        ELSE IF ~uploaded
        THEN [outcome |-> "TransportError", failed |-> "upload_file",
              trace |-> <<"create_repo", "mkdtemp", "save", "upload_file">>,
              path |-> path_in_repo, tmp |-> cache_path,
              dirs |-> sv.dirs, files |-> sv.files, hub |-> h1, ntmp |-> n + 1,
              doc |-> sv.doc]
        ELSE [outcome |-> "ok", failed |-> "",
              trace |-> <<"create_repo", "mkdtemp", "save", "upload_file">>,
              path |-> path_in_repo, tmp |-> cache_path,
              dirs |-> sv.dirs, files |-> sv.files,
              hub |-> [h1 EXCEPT !.files = WriteFile(@, <<repo_id>> \o path_in_repo, sv.doc)],
              ntmp |-> n + 1, doc |-> sv.doc]

\* self.push_to_hub(repo_id, filename, subfolder); created and uploaded tell
\* whether create_repo and upload_file succeed:
\* [outcome, failed, trace, path, tmp, dirs, files, hub, ntmp, doc]
push_to_hub(inst, repo_id, filename, subfolder, created, uploaded, ds, fs, h, n) ==
    LET path_in_repo == IF subfolder # "" THEN <<subfolder, filename>> ELSE <<filename>>
        h1 == [h EXCEPT !.repos = @ \cup {repo_id}]
        cache_path == TmpDir(n + 1)
        sv == save(inst, cache_path, filename, subfolder, ds \cup {<<cache_path>>}, fs)
    IN  IF ~created
        THEN [outcome |-> "TransportError", failed |-> "create_repo",
              trace |-> <<"create_repo">>, path |-> path_in_repo, tmp |-> "",
              dirs |-> ds, files |-> fs, hub |-> h, ntmp |-> n, doc |-> << >>]
        ELSE IF sv.outcome # "ok"
        THEN [outcome |-> sv.outcome, failed |-> "save",
              trace |-> <<"create_repo", "mkdtemp", "save">>,
              path |-> path_in_repo, tmp |-> cache_path,
              dirs |-> sv.dirs, files |-> sv.files, hub |-> h1, ntmp |-> n + 1,
              doc |-> << >>]
        ELSE IF ~uploaded
        THEN [outcome |-> "TransportError", failed |-> "upload_file",
              trace |-> <<"create_repo", "mkdtemp", "save", "upload_file">>,
              path |-> path_in_repo, tmp |-> cache_path,
              dirs |-> sv.dirs, files |-> sv.files, hub |-> h1, ntmp |-> n + 1,
              doc |-> sv.doc]
        ELSE [outcome |-> "ok", failed |-> "",
              trace |-> <<"create_repo", "mkdtemp", "save", "upload_file">>,
              path |-> path_in_repo, tmp |-> cache_path,
              dirs |-> sv.dirs, files |-> sv.files,
              hub |-> [h1 EXCEPT !.files = WriteFile(@, <<repo_id>> \o path_in_repo, sv.doc)],
              ntmp |-> n + 1, doc |-> sv.doc]

\* ------------------------------------------------------------------------
\* Store operations: inputs
\* ------------------------------------------------------------------------
\* strings a caller passes as hub_or_local_path / save_dir / repo_id
Locations == {"saved", "hezarai/bert"}
Repos == {"hezarai/bert"}
FileNames == {"train_config.yaml"}
Subfolders == {"", "sub"}

\* documents written by hand, with the two discriminators
TaggedDoc ==
    << <<"name", S("tagged")>>, <<"config_type", S("model")>>, <<"tags", S("[a]")>> >>
TrainerDoc ==
    << <<"name", S("trainer")>>, <<"config_type", S("trainer")>>,
       <<"task", S("text_classification")>>, <<"dataset_config", Dct("ner")>> >>
UserDocs == {TaggedDoc, TrainerDoc}

\* configs saved and pushed
SaveConfigs ==
    { Construct("TrainerConfig",
          << <<"task", S("text_classification")>>, <<"batch_size", S("32")>> >>),
      Construct("TaggedConfig", << <<"tags", S("[a]")>> >>),
      Construct("CriterionConfig", << <<"weight", Tensor>> >>) }

\* overrides passed to load
LoadKwargs ==
    { << >>,
      << <<"tags", S("[b]")>>, <<"name", S("gpt")>> >> }

InitMemIdle ==
    /\ objs = << >>
    /\ dicts = << >>
    /\ ret = NoRet

\* what is on disk and on the Hub when the program starts
Init ==
    /\ \/ dirs = {} /\ files = {}
       \/ dirs = {<<"saved">>} /\ files = {}
       \/ \E d \in UserDocs :
             /\ dirs = {<<"saved">>}
             /\ files = {<<PathJoin("saved", "", DEFAULT_MODEL_CONFIG_FILE), d>>}
    /\ \/ hub = NoHub
       \/ \E d \in UserDocs :
             hub = [repos |-> Repos,
                    files |-> {<<PathJoin("hezarai/bert", "", DEFAULT_MODEL_CONFIG_FILE), d>>}]
    /\ cache = {}
    /\ ntmp = 0
    /\ res = NoRes
    /\ ncalls = 0
    /\ InitMemIdle

\* ------------------------------------------------------------------------
\* Store operations: actions
\* ------------------------------------------------------------------------
Save(c, save_dir, filename, subfolder) ==
    LET r == save(c, save_dir, filename, subfolder, dirs, files)
    IN  /\ ncalls < MaxCalls
        /\ ncalls' = ncalls + 1
        /\ dirs' = r.dirs
        /\ files' = r.files
        /\ UNCHANGED <<hub, cache, ntmp>>
        /\ res' = [NoRes EXCEPT !.op = "save", !.loc = save_dir, !.filename = filename,
                     !.subfolder = subfolder, !.self = c, !.outcome = r.outcome,
                     !.path = r.path, !.doc = r.doc,
                     !.dirs0 = dirs, !.files0 = files, !.hub0 = hub,
                     !.prevop = res.op, !.prevpath = res.path,
                     !.prevoutcome = res.outcome, !.prevself = res.self]
        /\ UNCHANGED memvars

Load(hub_or_local_path, filename, subfolder, kwargs, fetched) ==
    LET r == load(hub_or_local_path, filename, subfolder, kwargs, fetched, dirs, files, hub)
    IN  /\ ncalls < MaxCalls
        /\ ncalls' = ncalls + 1
        /\ cache' = IF r.trace # << >> /\ r.outcome # "TransportError"
                    THEN cache \cup {r.path} ELSE cache
        /\ UNCHANGED <<dirs, files, hub, ntmp>>
        /\ res' = [NoRes EXCEPT !.op = "load", !.loc = hub_or_local_path,
                     !.filename = filename, !.subfolder = subfolder, !.kwargs = kwargs,
                     !.outcome = r.outcome, !.trace = r.trace, !.path = r.path,
                     !.doc = r.doc, !.cls = r.cls, !.config = r.config,
                     !.dirs0 = dirs, !.files0 = files, !.hub0 = hub,
                     !.prevop = res.op, !.prevpath = res.path,
                     !.prevoutcome = res.outcome, !.prevself = res.self]
        /\ UNCHANGED memvars

PushToHub(c, repo_id, filename, subfolder, created, uploaded) ==
    LET r == push_to_hub(c, repo_id, filename, subfolder, created, uploaded,
                         dirs, files, hub, ntmp)
    IN  /\ ncalls < MaxCalls
        /\ ncalls' = ncalls + 1
        /\ dirs' = r.dirs
        /\ files' = r.files
        /\ hub' = r.hub
        /\ ntmp' = r.ntmp
        /\ UNCHANGED cache
        /\ res' = [NoRes EXCEPT !.op = "push_to_hub", !.loc = repo_id,
                     !.filename = filename, !.subfolder = subfolder, !.self = c,
                     !.outcome = r.outcome, !.failed = r.failed, !.trace = r.trace,
                     !.path = r.path, !.doc = r.doc, !.tmp = r.tmp,
                     !.dirs0 = dirs, !.files0 = files, !.hub0 = hub,
                     !.prevop = res.op, !.prevpath = res.path,
                     !.prevoutcome = res.outcome, !.prevself = res.self]
        /\ UNCHANGED memvars

Next ==
    \/ \E c \in SaveConfigs, d \in Locations, f \in FileNames, sf \in Subfolders :
          Save(c, d, f, sf)
    \/ \E l \in Locations, f \in {""} \cup FileNames, sf \in Subfolders,
          kw \in LoadKwargs, fetched \in BOOLEAN :
          Load(l, f, sf, kw, fetched)

Spec == Init /\ [][Next]_vars

NextPush ==
    \E c \in SaveConfigs, r \in Repos, f \in FileNames, sf \in Subfolders,
       created \in BOOLEAN, uploaded \in BOOLEAN :
       PushToHub(c, r, f, sf, created, uploaded)

SpecPush == Init /\ [][NextPush]_vars

\* ------------------------------------------------------------------------
\* Properties of load and save (checked under Spec)
\* ------------------------------------------------------------------------
\* the file name a load call looks for
Effective(filename) == IF filename = "" THEN DEFAULT_MODEL_CONFIG_FILE ELSE filename

\* C1: when hub_or_local_path is an existing local directory and the
\* composed path is not an existing file, load ends in an error, makes no
\* download from the Hub and returns no config.
C1_LocalFirst ==
    ( /\ res.op = "load"
      /\ <<res.loc>> \in res.dirs0
      /\ ~IsFile(res.files0, PathJoin(res.loc, res.subfolder, Effective(res.filename))) )
    => /\ res.outcome = "EnvironmentError"
       /\ res.trace = << >>
       /\ res.config = NoConfig

\* the directory exists locally without the file while the Hub has a repo
\* of that name holding the file: a fallback would have found it
C1_Witness ==
    /\ res.op = "load"
    /\ <<res.loc>> \in res.dirs0
    /\ ~IsFile(res.files0, PathJoin(res.loc, res.subfolder, Effective(res.filename)))
    /\ OnHub(res.hub0, res.loc, Effective(res.filename), res.subfolder)
    /\ res.outcome = "EnvironmentError"

\* C2: saving a config c of a registered type and loading the file just
\* written succeeds and returns an instance of c's type with c's value in
\* every field that was not None in c and the default in every field that
\* was None.
C2_SaveThenLoad ==
    ( /\ res.op = "load"
      /\ res.kwargs = << >>
      /\ res.prevop = "save"
      /\ res.prevoutcome = "ok"
      /\ res.prevpath = res.path
      /\ res.prevself.cls \in Registered )
    => /\ res.outcome = "ok"
       /\ res.config.cls = res.prevself.cls
       /\ \A f \in FieldNames(res.prevself.cls) :
             res.config.attrs[f] =
                IF res.prevself.attrs[f] # None THEN AsdictInner(res.prevself.attrs[f])
                ELSE DefaultValue(res.prevself.cls, f)

\* C7: the instance load returns is of the type resolved from the stored
\* name and config_type; each declared field named in the overrides has the
\* override value, and each other declared field present in the stored
\* document has the stored value.
C7_OverridePrecedence ==
    (res.op = "load" /\ res.outcome = "ok")
    => LET stored == get_module_config_class(DictGet(res.doc, "name").v,
                                             DictGet(res.doc, "config_type").v)
       IN  /\ res.config.cls = stored
           /\ \A f \in FieldNames(stored) :
                 /\ f \in DictKeys(res.kwargs)
                       => res.config.attrs[f] = DictGet(res.kwargs, f)
                 /\ (f \notin DictKeys(res.kwargs) /\ f \in DictKeys(res.doc))
                       => res.config.attrs[f] = DictGet(res.doc, f)

\* ------------------------------------------------------------------------
\* Properties of push_to_hub (checked under SpecPush)
\* ------------------------------------------------------------------------
PushSteps == <<"create_repo", "mkdtemp", "save", "upload_file">>
InTrace(step) == \E n \in 1..Len(res.trace) : res.trace[n] = step

\* the parts of C8 about the order of the steps and the remote path
PushOrder ==
    /\ Len(res.trace) >= 1
    /\ res.trace = SubSeq(PushSteps, 1, Len(res.trace))
    /\ InTrace("save") => <<res.tmp>> \notin res.dirs0
    /\ InTrace("upload_file") =>
          /\ res.loc \in hub.repos
          /\ IsFile(files, PathJoin(res.tmp, res.subfolder, res.filename))
          /\ ReadFile(files, PathJoin(res.tmp, res.subfolder, res.filename))
                = SavedConfig(res.self)
    /\ res.path = IF res.subfolder = "" THEN <<res.filename>>
                  ELSE <<res.subfolder, res.filename>>
    /\ res.outcome = "ok" =>
          /\ IsFile(hub.files, <<res.loc>> \o res.path)
          /\ ReadFile(hub.files, <<res.loc>> \o res.path) = SavedConfig(res.self)

\* C8 as stated: the steps run in the order create_repo, save into a fresh
\* temporary directory, upload_file; the upload is attempted only after the
\* two others succeeded; the remote path is subfolder/filename; and when
\* the upload fails the call raises with the repository existing and not
\* containing the file.
C8_Original ==
    res.op = "push_to_hub" =>
        /\ PushOrder
        /\ res.failed = "upload_file" =>
              /\ res.outcome # "ok"
              /\ res.loc \in hub.repos
              /\ ~IsFile(hub.files, <<res.loc>> \o res.path)

\* C8 amended: as C8, but when the upload fails the repository exists with
\* its files exactly as they were before the call (it holds the file only
\* if an earlier push had put it there).
C8_PushOrderNoRollback ==
    res.op = "push_to_hub" =>
        /\ PushOrder
        /\ res.failed = "upload_file" =>
              /\ res.outcome # "ok"
              /\ res.loc \in hub.repos
              /\ hub.files = res.hub0.files

\* the upload fails in the call that created the repository
C8_Witness ==
    /\ res.op = "push_to_hub"
    /\ res.failed = "upload_file"
    /\ res.loc \notin res.hub0.repos
    /\ res.loc \in hub.repos
    /\ res.subfolder # ""

====
